---- MODULE Spec2Model ----
(***************************************************************************)
(* Event programs (schedules) made of time-boxed items, with owner/admin   *)
(* access and public sharing through a token: the Django application       *)
(* `programs` (models.py, serializers.py, views.py, permissions.py).       *)
(*                                                                         *)
(* The two database tables are the variables `programs` and `items`; each  *)
(* request handler of views.py is one action.  `last` is the response to   *)
(* the latest request, and `reqs` holds the local state of the requests    *)
(* that are in flight in the interleaved specifications.                   *)
(***************************************************************************)
EXTENDS Integers, Sequences, FiniteSets

VARIABLES programs, items, nextProgramPk, nextItemPk, last, reqs

vars == <<programs, items, nextProgramPk, nextItemPk, last, reqs>>

----------------------------------------------------------------------------
(* Bounds of the model *)

\* instants are 0..MaxTime
MaxTime == 2
\* number of ProgramItem rows ever inserted (primary keys 1..MaxItems)
MaxItems == 2
\* number of ProgramItem rows inserted after the initial ones in SpecShare
MaxNewItems == 1
\* number of requests in flight at once in SpecRace
MaxRequests == 2
\* number of ProgramItem rows inserted into program 1 in SpecPosition
MaxPosItems == 3

Instants == 0..MaxTime
Titles == {"a", "b"}
\* the values secrets.token_urlsafe(32) can return
Tokens == {"tokA", "tokB"}
\* the values timezone.now() can return
Nows == {"now1", "now2"}
\* ordinary accounts, accounts with is_staff or is_superuser, AnonymousUser
Users == {"alice", "bob"}
Staff == {"root"}
Anonymous == "anon"
Actors == Users \cup Staff \cup {Anonymous}

\* Python's None for the string-valued columns (share_token, shared_at)
None == "None"
\* an optional number: <<>> is None / not supplied, <<v>> is the value v
Nothing == <<>>
Some(v) == <<v>>
IsSome(o) == o # <<>>
Val(o) == o[1]
Opt(S) == {Nothing} \cup {Some(v) : v \in S}

----------------------------------------------------------------------------
(* models.py: Program *)

ProgramRow(pk) == CHOOSE p \in programs : p.pk = pk
ProgramPks == {p.pk : p \in programs}

\* program.items.all()
ItemsOf(table, pk) == {i \in table : i.program = pk}

\* a conflict test that counts touching ranges as overlapping
_items_conflict_inclusive(item_a, item_b) ==
    /\ item_a.start_time <= item_b.end_time
    /\ item_a.end_time >= item_b.start_time

\* Program._items_conflict
_items_conflict(item_a, item_b) ==
    /\ item_a.start_time < item_b.end_time
    /\ item_a.end_time > item_b.start_time

\* items.order_by('start_time'): ascending start_time, ties in primary key order
RECURSIVE OrderByStart(_)
OrderByStart(S) ==
    IF S = {} THEN <<>>
    ELSE LET first == CHOOSE i \in S : \A j \in S :
                          \/ i.start_time < j.start_time
                          \/ (i.start_time = j.start_time /\ i.pk <= j.pk)
         IN <<first>> \o OrderByStart(S \ {first})

\* the inner loop of is_ready: for other_item in items[i + 1:]
RECURSIVE ConflictsWithLater(_, _)
ConflictsWithLater(item, rest) ==
    IF rest = <<>> THEN FALSE
    ELSE IF _items_conflict(item, Head(rest)) THEN TRUE
    ELSE ConflictsWithLater(item, Tail(rest))

\* the loop of is_ready without its test of end_time <= start_time
RECURSIVE ReadyLoop_NoRangeCheck(_)
ReadyLoop_NoRangeCheck(seq) ==
    IF seq = <<>> THEN TRUE
    ELSE IF ConflictsWithLater(Head(seq), Tail(seq)) THEN FALSE
    ELSE ReadyLoop_NoRangeCheck(Tail(seq))

\* the outer loop of is_ready: for i, item in enumerate(items)
RECURSIVE ReadyLoop(_)
ReadyLoop(seq) ==
    IF seq = <<>> THEN TRUE
    ELSE IF Head(seq).end_time <= Head(seq).start_time THEN FALSE
    ELSE IF ConflictsWithLater(Head(seq), Tail(seq)) THEN FALSE
    ELSE ReadyLoop(Tail(seq))

\* is_ready without its test for a program that has no items
is_ready_empty_ok(table, pk) == ReadyLoop(OrderByStart(ItemsOf(table, pk)))

\* Program.is_ready, over the rows of the item table
is_ready(table, pk) ==
    IF ItemsOf(table, pk) = {} THEN FALSE
    ELSE ReadyLoop(OrderByStart(ItemsOf(table, pk)))

\* Program.shared_but_unready
shared_but_unready(table, p) == p.shared_at # None /\ ~is_ready(table, p.pk)

\* Program.objects.filter(share_token=token).exists()
TokenExists(token) == \E p \in programs : p.share_token = token

\* unique=True on Program.share_token: the row pk may hold token
ShareTokenUnique(pk, token) ==
    token = None \/ ~\E p \in programs : p.pk # pk /\ p.share_token = token

----------------------------------------------------------------------------
(* models.py: ProgramItem *)

ItemRow(pk) == CHOOSE i \in items : i.pk = pk

\* aggregate(max_pos=Max('position')), with `max_position or 0`
MaxOf(S) == IF S = {} THEN 0 ELSE CHOOSE y \in S : \A z \in S : z <= y

\* a position taken from the number of items instead of the largest position
AssignPosition_Count(program_pk) == Cardinality(ItemsOf(items, program_pk)) + 1

\* ProgramItem.save: the position of a row saved with position None
AssignPosition(program_pk) ==
    MaxOf({i.position : i \in ItemsOf(items, program_pk)}) + 1

\* an item table without the unique_together constraint
PositionUnique_Unconstrained(pk, program_pk, position) == TRUE

\* unique_together = ['program', 'position']: row pk of the program may hold position
PositionUnique(pk, program_pk, position) ==
    ~\E i \in ItemsOf(items, program_pk) : i.pk # pk /\ i.position = position

----------------------------------------------------------------------------
(* serializers.py: ProgramItemSerializer *)

\* a conflict test that only asks whether range a starts inside range b
_check_conflict_start_inside(start_a, end_a, start_b, end_b) ==
    IF ~IsSome(start_a) THEN "TypeError"
    ELSE IF ~(Val(start_a) < end_b) THEN "False"
    ELSE IF ~IsSome(end_a) THEN "TypeError"
    ELSE IF Val(start_a) >= start_b THEN "True"
    ELSE "False"

\* ProgramItemSerializer._check_conflict on the values validate() hands it:
\* start_a and end_a are None when the request leaves the field out, and
\* Python raises TypeError when it orders None and a datetime
_check_conflict(start_a, end_a, start_b, end_b) ==
    IF ~IsSome(start_a) THEN "TypeError"
    ELSE IF ~(Val(start_a) < end_b) THEN "False"
    ELSE IF ~IsSome(end_a) THEN "TypeError"
    ELSE IF Val(end_a) > start_b THEN "True"
    ELSE "False"

\* Meta.ordering = ['position']: the order in which program.items.all() iterates
RECURSIVE OrderByPosition(_)
OrderByPosition(S) ==
    IF S = {} THEN <<>>
    ELSE LET first == CHOOSE i \in S : \A j \in S :
                          \/ i.position < j.position
                          \/ (i.position = j.position /\ i.pk <= j.pk)
         IN <<first>> \o OrderByPosition(S \ {first})

\* the loop of validate: for sibling in sibling_items
\* result: [error, item]: error "" when no sibling conflicts
RECURSIVE SiblingLoop(_, _, _)
SiblingLoop(start_time, end_time, siblings) ==
    IF siblings = <<>> THEN [error |-> "", item |-> 0]
    ELSE LET c == _check_conflict(start_time, end_time,
                                  Head(siblings).start_time, Head(siblings).end_time)
         IN IF c = "TypeError" THEN [error |-> "type_error", item |-> Head(siblings).pk]
            ELSE IF c = "True" THEN [error |-> "conflict", item |-> Head(siblings).pk]
            ELSE SiblingLoop(start_time, end_time, Tail(siblings))

\* the time range check of validate
RangeInvalid(start_time, end_time) ==
    IsSome(end_time) /\ IsSome(start_time) /\ Val(end_time) <= Val(start_time)

\* sibling_items without the exclude(pk=self.instance.pk)
SiblingItems_WithSelf(table, program_pk, instance_pk) == ItemsOf(table, program_pk)

\* sibling_items of validate: the program's items, without the instance on update
SiblingItems(table, program_pk, instance_pk) ==
    {i \in ItemsOf(table, program_pk) : i.pk # instance_pk}

\* ProgramItemSerializer.validate(data) with context program and instance
\* (instance_pk 0 on create)
validate(table, data, program_pk, instance_pk) ==
    IF RangeInvalid(data.start_time, data.end_time)
    THEN [error |-> "invalid_range", item |-> 0]
    ELSE SiblingLoop(data.start_time, data.end_time,
                     OrderByPosition(SiblingItems(table, program_pk, instance_pk)))

\* the fields a ModelSerializer requires of a request that is not partial
\* (title, start_time and end_time are not nullable and have no default)
RequiredMissing(data, partial) ==
    ~partial /\ (~IsSome(data.title) \/ ~IsSome(data.start_time) \/ ~IsSome(data.end_time))

\* serializer.save() on an instance: the supplied fields replace the stored ones
UpdatedRow(row, data) ==
    [row EXCEPT !.title = IF IsSome(data.title) THEN Val(data.title) ELSE @,
                !.start_time = IF IsSome(data.start_time) THEN Val(data.start_time) ELSE @,
                !.end_time = IF IsSome(data.end_time) THEN Val(data.end_time) ELSE @,
                !.position = IF IsSome(data.position) THEN Val(data.position) ELSE @]

----------------------------------------------------------------------------
(* serializers.py: ProgramSerializer *)

\* a serializer whose read_only_fields leave share_token and shared_at out
ProgramWritable_All(data) == data

\* Meta.read_only_fields: what request data may write is only what is not read-only
ProgramWritable(data) == [title |-> data.title, share_token |-> None, shared_at |-> None]

\* serializer.save() on a Program instance
UpdatedProgram(row, data) ==
    LET w == ProgramWritable(data)
    IN [row EXCEPT !.title = IF IsSome(w.title) THEN Val(w.title) ELSE @,
                   !.share_token = IF w.share_token # None THEN w.share_token ELSE @,
                   !.shared_at = IF w.shared_at # None THEN w.shared_at ELSE @]

----------------------------------------------------------------------------
(* permissions.py and the object lookups of views.py *)

\* a permission class that takes AnonymousUser for an authenticated user
IsAuthenticated_Anyone(user) == TRUE

\* permissions.IsAuthenticated
IsAuthenticated(user) == user # Anonymous

\* IsAuthenticatedOrReadOnlyShared.has_permission; safe is request.method in
\* SAFE_METHODS
has_permission(user, safe) == IsAuthenticated(user) \/ safe

\* user.is_staff or user.is_superuser
IsAdmin(user) == user \in Staff

\* IsOwnerOrAdmin.has_object_permission
has_object_permission(user, p) == IsAdmin(user) \/ p.owner = user

\* a lookup that leaves the owner filter out
ProgramFound_AnyOwner(pk, user) == \E p \in programs : p.pk = pk

\* get_object / get_program: get_object_or_404(Program, pk=pk[, owner=user])
ProgramFound(pk, user) ==
    \E p \in programs : p.pk = pk /\ (IsAdmin(user) \/ p.owner = user)

\* get_program_and_item: get_object_or_404(ProgramItem, pk=item_pk, program=program)
ItemFound(program_pk, item_pk) ==
    \E i \in items : i.pk = item_pk /\ i.program = program_pk

\* the queryset of ProgramView.get and DashboardView.get
VisiblePrograms(user) ==
    IF IsAdmin(user) THEN programs ELSE {p \in programs : p.owner = user}

\* Program.objects.filter(share_token=share_token): the URL converter <str:...>
\* hands over a non-empty string, which equals no NULL share_token
ProgramsByToken(share_token) ==
    {p \in programs : p.share_token # None /\ p.share_token = share_token}

----------------------------------------------------------------------------
(* The response to a request *)

\* op, program and item name the request; result is the outcome, detail
\* the sibling a conflict error names, token, shared_at and is_ready the fields
\* of that name of a serialized program, rows the primary keys of the rows a
\* list holds
Response(op, program_pk, item_pk, result) ==
    [op |-> op, program |-> program_pk, item |-> item_pk,
     result |-> result, detail |-> 0, token |-> None, shared_at |-> None,
     is_ready |-> FALSE, rows |-> {}]

\* ProgramSerializer(program).data in a response
WithProgram(resp, p) ==
    [resp EXCEPT !.token = p.share_token, !.shared_at = p.shared_at,
                 !.is_ready = is_ready(items, p.pk)]

\* a request that ends without writing
Refuse(resp) ==
    /\ last' = resp
    /\ UNCHANGED <<programs, items, nextProgramPk, nextItemPk, reqs>>

----------------------------------------------------------------------------
(* views.py: ProgramView, ProgramDetailView *)

\* ProgramView.post
ProgramCreate(actor, title) ==
    IF ~IsAuthenticated(actor)
    THEN Refuse(Response("program_create", 0, 0, "denied"))
    ELSE /\ programs' = programs \cup
                {[pk |-> nextProgramPk, owner |-> actor, title |-> title,
                  share_token |-> None, shared_at |-> None]}
         /\ nextProgramPk' = nextProgramPk + 1
         /\ last' = Response("program_create", nextProgramPk, 0, "created")
         /\ UNCHANGED <<items, nextItemPk, reqs>>

\* ProgramDetailView.get
ProgramGet(actor, pk) ==
    IF ~IsAuthenticated(actor)
    THEN Refuse(Response("program_get", pk, 0, "denied"))
    ELSE IF ~ProgramFound(pk, actor)
    THEN Refuse(Response("program_get", pk, 0, "not_found"))
    ELSE IF ~has_object_permission(actor, ProgramRow(pk))
    THEN Refuse(Response("program_get", pk, 0, "denied"))
    ELSE Refuse(WithProgram(Response("program_get", pk, 0, "ok"), ProgramRow(pk)))

\* ProgramDetailView.put (partial FALSE) and ProgramDetailView.patch (partial TRUE)
ProgramUpdate(actor, pk, data, partial) ==
    IF ~IsAuthenticated(actor)
    THEN Refuse(Response("program_update", pk, 0, "denied"))
    ELSE IF ~ProgramFound(pk, actor)
    THEN Refuse(Response("program_update", pk, 0, "not_found"))
    ELSE IF ~has_object_permission(actor, ProgramRow(pk))
    THEN Refuse(Response("program_update", pk, 0, "denied"))
    ELSE IF ~partial /\ ~IsSome(data.title)
    THEN Refuse(Response("program_update", pk, 0, "required"))
    ELSE /\ programs' = (programs \ {ProgramRow(pk)})
                            \cup {UpdatedProgram(ProgramRow(pk), data)}
         /\ last' = Response("program_update", pk, 0, "ok")
         /\ UNCHANGED <<items, nextProgramPk, nextItemPk, reqs>>

\* ProgramDetailView.delete; on_delete=CASCADE removes the program's items
ProgramDelete(actor, pk) ==
    IF ~IsAuthenticated(actor)
    THEN Refuse(Response("program_delete", pk, 0, "denied"))
    ELSE IF ~ProgramFound(pk, actor)
    THEN Refuse(Response("program_delete", pk, 0, "not_found"))
    ELSE IF ~has_object_permission(actor, ProgramRow(pk))
    THEN Refuse(Response("program_delete", pk, 0, "denied"))
    ELSE /\ programs' = programs \ {ProgramRow(pk)}
         /\ items' = items \ ItemsOf(items, pk)
         /\ last' = Response("program_delete", pk, 0, "deleted")
         /\ UNCHANGED <<nextProgramPk, nextItemPk, reqs>>

----------------------------------------------------------------------------
(* views.py: ProgramShareView *)

\* a generator that keeps its first candidate without the exists() query
generate_accepts_any(token) == TRUE

\* a share view without its already-shared branch
already_shared_never(p) == FALSE

\* one pass of the loop of Program.generate_share_token: the candidate is kept
generate_accepts(token) == ~TokenExists(token)

\* `if program.share_token:` in ProgramShareView.post
already_shared(p) == p.share_token # None

\* a share that stores the token and leaves shared_at as it was
SharedRow_TokenOnly(row, token, now) == [row EXCEPT !.share_token = token]

\* views.py:122-123: the instance with its new share_token and shared_at
SharedRow(row, token, now) == [row EXCEPT !.share_token = token, !.shared_at = now]

\* ProgramShareView.post, run from its first line to its last
ProgramShare(actor, pk, candidate, now) ==
    IF ~IsAuthenticated(actor)
    THEN Refuse(Response("share", pk, 0, "denied"))
    ELSE IF ~ProgramFound(pk, actor)
    THEN Refuse(Response("share", pk, 0, "not_found"))
    ELSE IF ~has_object_permission(actor, ProgramRow(pk))
    THEN Refuse(Response("share", pk, 0, "denied"))
    ELSE IF already_shared(ProgramRow(pk))
    THEN Refuse(WithProgram(Response("share", pk, 0, "already_shared"),
                            ProgramRow(pk)))
    ELSE IF ~is_ready(items, pk)
    THEN Refuse(Response("share", pk, 0, "not_ready"))
    ELSE \* the loop ends with the first candidate that generate_accepts
         /\ generate_accepts(candidate)
         /\ IF ShareTokenUnique(pk, candidate)
            THEN /\ programs' = (programs \ {ProgramRow(pk)}) \cup
                        {SharedRow(ProgramRow(pk), candidate, now)}
                 /\ last' = WithProgram(Response("share", pk, 0, "shared"),
                                        SharedRow(ProgramRow(pk), candidate, now))
            ELSE /\ programs' = programs
                 /\ last' = Response("share", pk, 0, "integrity_error")
         /\ UNCHANGED <<items, nextProgramPk, nextItemPk, reqs>>

----------------------------------------------------------------------------
(* views.py: ProgramItemView, ProgramItemDetailView *)

\* what an item request answers and leaves in the item table
Outcome(resp, table, next_pk) == [last |-> resp, items |-> table, nextItemPk |-> next_pk]

\* a response that writes nothing
Rejected(resp) == Outcome(resp, items, nextItemPk)

\* ProgramItemView.post: the response and the item table it leaves
ItemCreateResult(actor, program_pk, data) ==
    IF ~IsAuthenticated(actor)
    THEN Rejected(Response("item_create", program_pk, 0, "denied"))
    ELSE IF ~ProgramFound(program_pk, actor)
    THEN Rejected(Response("item_create", program_pk, 0, "not_found"))
    ELSE IF RequiredMissing(data, FALSE)
    THEN Rejected(Response("item_create", program_pk, 0, "required"))
    ELSE LET v == validate(items, data, program_pk, 0)
             position == IF IsSome(data.position) THEN Val(data.position)
                         ELSE AssignPosition(program_pk)
         IN IF v.error # ""
            THEN Rejected([Response("item_create", program_pk, 0, v.error)
                              EXCEPT !.detail = v.item])
            ELSE IF ~PositionUnique(0, program_pk, position)
            THEN Rejected(Response("item_create", program_pk, 0, "integrity_error"))
            ELSE Outcome(Response("item_create", program_pk, nextItemPk, "created"),
                         items \cup {[pk |-> nextItemPk, program |-> program_pk,
                                      title |-> Val(data.title),
                                      start_time |-> Val(data.start_time),
                                      end_time |-> Val(data.end_time),
                                      position |-> position]},
                         nextItemPk + 1)

\* ProgramItemView.post
ItemCreate(actor, program_pk, data) ==
    LET out == ItemCreateResult(actor, program_pk, data)
    IN /\ last' = out.last
       /\ items' = out.items
       /\ nextItemPk' = out.nextItemPk
       /\ UNCHANGED <<programs, nextProgramPk, reqs>>

\* ProgramItemDetailView.put (partial FALSE) and ProgramItemDetailView.patch
\* (partial TRUE): the response and the item table it leaves
ItemUpdateResult(actor, program_pk, item_pk, data, partial) ==
    LET op == IF partial THEN "item_patch" ELSE "item_put"
    IN IF ~IsAuthenticated(actor)
       THEN Rejected(Response(op, program_pk, item_pk, "denied"))
       ELSE IF ~ProgramFound(program_pk, actor) \/ ~ItemFound(program_pk, item_pk)
       THEN Rejected(Response(op, program_pk, item_pk, "not_found"))
       ELSE IF RequiredMissing(data, partial)
       THEN Rejected(Response(op, program_pk, item_pk, "required"))
       ELSE LET v == validate(items, data, program_pk, item_pk)
                row == UpdatedRow(ItemRow(item_pk), data)
            IN IF v.error # ""
               THEN Rejected([Response(op, program_pk, item_pk, v.error)
                                 EXCEPT !.detail = v.item])
               ELSE IF ~PositionUnique(item_pk, program_pk, row.position)
               THEN Rejected(Response(op, program_pk, item_pk, "integrity_error"))
               ELSE Outcome(Response(op, program_pk, item_pk, "ok"),
                            (items \ {ItemRow(item_pk)}) \cup {row},
                            nextItemPk)

\* ProgramItemDetailView.put and ProgramItemDetailView.patch
ItemUpdate(actor, program_pk, item_pk, data, partial) ==
    LET out == ItemUpdateResult(actor, program_pk, item_pk, data, partial)
    IN /\ last' = out.last
       /\ items' = out.items
       /\ nextItemPk' = out.nextItemPk
       /\ UNCHANGED <<programs, nextProgramPk, reqs>>

\* a deletion that closes the gap: later items of the program move up by one
DeleteRow_Compact(table, row) ==
    {IF i.program = row.program /\ i.position > row.position
     THEN [i EXCEPT !.position = @ - 1] ELSE i : i \in table \ {row}}

\* item.delete(): one DELETE statement for the row
DeleteRow(table, row) == table \ {row}

\* ProgramItemDetailView.delete
ItemDelete(actor, program_pk, item_pk) ==
    IF ~IsAuthenticated(actor)
    THEN Refuse(Response("item_delete", program_pk, item_pk, "denied"))
    ELSE IF ~ProgramFound(program_pk, actor) \/ ~ItemFound(program_pk, item_pk)
    THEN Refuse(Response("item_delete", program_pk, item_pk, "not_found"))
    ELSE /\ items' = DeleteRow(items, ItemRow(item_pk))
         /\ last' = Response("item_delete", program_pk, item_pk, "deleted")
         /\ UNCHANGED <<programs, nextProgramPk, nextItemPk, reqs>>

----------------------------------------------------------------------------
(* views.py: the handlers that only read *)

\* ProgramView.get
ProgramList(actor) ==
    IF ~IsAuthenticated(actor)
    THEN Refuse(Response("program_list", 0, 0, "denied"))
    ELSE Refuse([Response("program_list", 0, 0, "ok")
                    EXCEPT !.rows = {p.pk : p \in VisiblePrograms(actor)}])

\* DashboardView.get
Dashboard(actor) ==
    IF ~IsAuthenticated(actor)
    THEN Refuse(Response("dashboard", 0, 0, "denied"))
    ELSE Refuse([Response("dashboard", 0, 0, "ok")
                    EXCEPT !.rows = {p.pk : p \in VisiblePrograms(actor)},
                           !.detail = Cardinality(VisiblePrograms(actor))])

\* ProgramItemView.get
ItemList(actor, program_pk) ==
    IF ~IsAuthenticated(actor)
    THEN Refuse(Response("item_list", program_pk, 0, "denied"))
    ELSE IF ~ProgramFound(program_pk, actor)
    THEN Refuse(Response("item_list", program_pk, 0, "not_found"))
    ELSE Refuse([Response("item_list", program_pk, 0, "ok")
                    EXCEPT !.rows = {i.pk : i \in ItemsOf(items, program_pk)}])

\* ProgramItemDetailView.get
ItemGet(actor, program_pk, item_pk) ==
    IF ~IsAuthenticated(actor)
    THEN Refuse(Response("item_get", program_pk, item_pk, "denied"))
    ELSE IF ~ProgramFound(program_pk, actor) \/ ~ItemFound(program_pk, item_pk)
    THEN Refuse(Response("item_get", program_pk, item_pk, "not_found"))
    ELSE Refuse(Response("item_get", program_pk, item_pk, "ok"))

\* SharedProgramView.get: the response names the program found and holds the
\* fields of SharedProgramSerializer (shared_at and the items, no share_token)
SharedGet(actor, share_token) ==
    IF ~has_permission(actor, TRUE)
    THEN Refuse(Response("shared_get", 0, 0, "denied"))
    ELSE IF ProgramsByToken(share_token) = {}
    THEN Refuse(Response("shared_get", 0, 0, "not_found"))
    ELSE LET p == CHOOSE q \in ProgramsByToken(share_token) : TRUE
         IN Refuse([Response("shared_get", p.pk, 0, "ok")
                       EXCEPT !.shared_at = p.shared_at,
                              !.rows = {i.pk : i \in ItemsOf(items, p.pk)}])

\* SharedProgramView on POST, PUT, PATCH or DELETE: the permission is checked
\* first, then the view has no handler for the method
SharedWrite(actor, share_token) ==
    IF ~has_permission(actor, FALSE)
    THEN Refuse(Response("shared_write", 0, 0, "denied"))
    ELSE Refuse(Response("shared_write", 0, 0, "method_not_allowed"))

----------------------------------------------------------------------------
(* Initial databases *)

NoResponse == Response("none", 0, 0, "none")

\* the database after migration: no rows
InitEmpty ==
    /\ programs = {}
    /\ items = {}
    /\ nextProgramPk = 1
    /\ nextItemPk = 1
    /\ last = NoResponse
    /\ reqs = <<>>

\* the database after alice has created her first program (ProgramView.post)
Init ==
    /\ programs = {[pk |-> 1, owner |-> "alice", title |-> "a",
                    share_token |-> None, shared_at |-> None]}
    /\ items = {}
    /\ nextProgramPk = 2
    /\ nextItemPk = 1
    /\ last = Response("program_create", 1, 0, "created")
    /\ reqs = <<>>

----------------------------------------------------------------------------
(* Spec: the item requests of the owner of one program, issued one at a time *)

\* a request body names a time range in full, in part, or not at all
RangeData == [title : {Some("a")}, start_time : Opt(Instants),
              end_time : Opt(Instants), position : {Nothing}]

Next ==
    \/ /\ nextItemPk <= MaxItems
       /\ \E data \in RangeData : ItemCreate("alice", 1, data)
    \/ \E item_pk \in 1..MaxItems, data \in RangeData, partial \in BOOLEAN :
          ItemUpdate("alice", 1, item_pk, data, partial)
    \/ \E item_pk \in 1..MaxItems : ItemDelete("alice", 1, item_pk)

Spec == Init /\ [][Next]_vars

\* the ranges overlap: a.start < b.end AND a.end > b.start
Overlap(s1, e1, s2, e2) == s1 < e2 /\ e1 > s2

\* C2: through item create, update (PUT or PATCH) and delete requests issued one
\* at a time, no two items of the same program ever have overlapping ranges;
\* items that only touch may coexist.
C2_NoOverlap ==
    \A a \in items, b \in items :
        (a.pk # b.pk /\ a.program = b.program)
            => ~Overlap(a.start_time, a.end_time, b.start_time, b.end_time)

\* an update has left two items of one program that touch
C2_Witness ==
    /\ last.op \in {"item_put", "item_patch"}
    /\ last.result = "ok"
    /\ \E a \in items, b \in items :
          /\ a.pk = last.item /\ b.pk # a.pk /\ a.program = b.program
          /\ a.start_time < a.end_time /\ a.end_time = b.start_time
          /\ b.start_time < b.end_time

\* C3: every stored item has end > start after any sequence of item create and
\* update requests, full or partial.
C3_RangesValid == \A i \in items : i.end_time > i.start_time

\* the requests whose body names a whole range with end > start
ValidRangeData == {d \in RangeData : /\ IsSome(d.start_time) /\ IsSome(d.end_time)
                                      /\ Val(d.end_time) > Val(d.start_time)}

\* the candidate range of data overlaps an item in S
OverlapsSome(data, S) ==
    \E i \in S : Overlap(Val(data.start_time), Val(data.end_time),
                         i.start_time, i.end_time)

\* what C4 says of the outcome of a request with a valid range whose other
\* items are `others` and whose row, once stored, is `pk`
ConflictRule(out, data, others, pk) ==
    /\ (out.last.result = "conflict") <=> OverlapsSome(data, others)
    /\ (out.last.result = "conflict") => out.items = items
    /\ ~OverlapsSome(data, others) =>
          /\ out.last.result \in {"created", "ok"}
          /\ \E i \in out.items : /\ i.pk = pk
                                  /\ i.start_time = Val(data.start_time)
                                  /\ i.end_time = Val(data.end_time)

\* C4: a create or update request with a valid range is rejected with the
\* conflict error iff the range overlaps another item of the same program (the
\* updated item itself excluded); a rejected request changes nothing, and a
\* range that overlaps no sibling, touching ones included, is stored.
C4_ConflictIff ==
    \A data \in ValidRangeData :
        /\ ConflictRule(ItemCreateResult("alice", 1, data), data,
                        ItemsOf(items, 1), nextItemPk)
        /\ \A i \in ItemsOf(items, 1), partial \in BOOLEAN :
              ConflictRule(ItemUpdateResult("alice", 1, i.pk, data, partial), data,
                           ItemsOf(items, 1) \ {i}, i.pk)

\* an update was refused for a conflict with another item
C4_Witness ==
    /\ last.op \in {"item_put", "item_patch"}
    /\ last.result = "conflict"
    /\ last.detail # last.item

\* the bodies of a PATCH that leave start_time or end_time out
PartialRangeData ==
    {d \in RangeData : ~IsSome(d.start_time) \/ ~IsSome(d.end_time)}

\* what a PATCH of item i with body data answers when an omitted time is read
\* from the stored row
PatchExpected(i, data) ==
    LET start_time == IF IsSome(data.start_time) THEN Val(data.start_time)
                      ELSE i.start_time
        end_time == IF IsSome(data.end_time) THEN Val(data.end_time) ELSE i.end_time
    IN IF end_time <= start_time THEN "invalid_range"
       ELSE IF \E j \in ItemsOf(items, i.program) \ {i} :
                  Overlap(start_time, end_time, j.start_time, j.end_time)
       THEN "conflict"
       ELSE "ok"

\* C19: a PATCH that omits start_time or end_time never ends in an unhandled
\* error and is validated with the stored value in place of the omitted one;
\* when it supplies neither, it succeeds and changes only the supplied fields.
C19_PartialUpdate ==
    \A i \in ItemsOf(items, 1), data \in PartialRangeData :
        LET out == ItemUpdateResult("alice", 1, i.pk, data, TRUE)
        IN /\ out.last.result # "type_error"
           /\ out.last.result = PatchExpected(i, data)
           /\ (~IsSome(data.start_time) /\ ~IsSome(data.end_time)) =>
                 /\ out.last.result = "ok"
                 /\ out.items = (items \ {i}) \cup {[i EXCEPT !.title = Val(data.title)]}

----------------------------------------------------------------------------
(* SpecReady: readiness and the conflict tests over arbitrary item rows *)

\* the rows ProgramItem.objects.create can store for program 1: the ORM checks
\* no range and no overlap (programs/tests/test_program_items.py builds its
\* overlapping items this way)
OrmRows(pk) == [pk : {pk}, program : {1}, title : {"a"}, start_time : Instants,
                end_time : Instants, position : {pk}]

RECURSIVE OrmTables(_)
OrmTables(n) ==
    IF n = 0 THEN {{}}
    ELSE OrmTables(n - 1) \cup
         {t \cup {r} : t \in {u \in OrmTables(n - 1) : Cardinality(u) = n - 1},
                       r \in OrmRows(n)}

InitReady ==
    /\ programs = {[pk |-> 1, owner |-> "alice", title |-> "a",
                    share_token |-> None, shared_at |-> None]}
    /\ items \in OrmTables(MaxItems)
    /\ nextProgramPk = 2
    /\ nextItemPk = Cardinality(items) + 1
    /\ last = NoResponse
    /\ reqs = <<>>

NextReady == ProgramGet("alice", 1)

SpecReady == InitReady /\ [][NextReady]_vars

\* C1: is_ready is true iff the program has an item, every item has
\* end > start, and no two distinct items overlap.
C1_ReadyIff ==
    (last.op = "program_get" /\ last.result = "ok") =>
        (last.is_ready <=>
            /\ ItemsOf(items, last.program) # {}
            /\ \A i \in ItemsOf(items, last.program) : i.end_time > i.start_time
            /\ \A a \in ItemsOf(items, last.program), b \in ItemsOf(items, last.program) :
                  a.pk # b.pk =>
                      ~(a.start_time < b.end_time /\ a.end_time > b.start_time))

\* a program of two touching items was read and is ready
C1_Witness ==
    /\ last.op = "program_get" /\ last.is_ready
    /\ \E a \in items, b \in items : a.pk # b.pk /\ a.end_time = b.start_time

\* C5: both conflict tests are true exactly when a.start < b.end and
\* a.end > b.start: touching ranges never conflict, the test is symmetric, and
\* Program._items_conflict and ProgramItemSerializer._check_conflict agree.
C5_ConflictTests ==
    \A a \in items, b \in items :
        /\ _items_conflict(a, b)
              <=> (a.start_time < b.end_time /\ a.end_time > b.start_time)
        /\ (_check_conflict(Some(a.start_time), Some(a.end_time),
                            b.start_time, b.end_time) = "True")
              <=> (a.start_time < b.end_time /\ a.end_time > b.start_time)
        /\ (a.end_time = b.start_time)
              => /\ ~_items_conflict(a, b) /\ ~_items_conflict(b, a)
                 /\ _check_conflict(Some(a.start_time), Some(a.end_time),
                                    b.start_time, b.end_time) = "False"
                 /\ _check_conflict(Some(b.start_time), Some(b.end_time),
                                    a.start_time, a.end_time) = "False"
        /\ _items_conflict(a, b) <=> _items_conflict(b, a)
        /\ _check_conflict(Some(a.start_time), Some(a.end_time),
                           b.start_time, b.end_time)
              = _check_conflict(Some(b.start_time), Some(b.end_time),
                                a.start_time, a.end_time)

\* two overlapping items were read as not ready
C5_Witness ==
    /\ last.op = "program_get" /\ ~last.is_ready
    /\ \E a \in items, b \in items :
          /\ a.pk # b.pk
          /\ a.start_time < a.end_time /\ b.start_time < b.end_time
          /\ a.start_time < b.end_time /\ a.end_time > b.start_time

----------------------------------------------------------------------------
(* SpecShare: two programs, edited and shared one request at a time *)

\* the owner of the programs and an administrator
ShareActors == {"alice", "root"}

SharePks == {1, 2}

\* bodies of program updates: a title, with and without values for the
\* read-only fields share_token and shared_at
ProgramData == {[title |-> Some("a"), share_token |-> None, shared_at |-> None],
                [title |-> Some("a"), share_token |-> "tokB", shared_at |-> "now2"],
                [title |-> Nothing, share_token |-> "tokA", shared_at |-> None]}

\* bodies of item requests: a valid range, and a partial update that empties it
NewItemData == [title |-> Some("a"), start_time |-> Some(0), end_time |-> Some(1),
                position |-> Nothing]
EndOnlyData == [title |-> Nothing, start_time |-> Nothing, end_time |-> Some(0),
                position |-> Nothing]

\* the database after alice has created two programs and one item in each
InitShare ==
    /\ programs = {[pk |-> pk, owner |-> "alice", title |-> "a",
                    share_token |-> None, shared_at |-> None] : pk \in SharePks}
    /\ items = {[pk |-> pk, program |-> pk, title |-> "a", start_time |-> 0,
                 end_time |-> 1, position |-> 1] : pk \in SharePks}
    /\ nextProgramPk = 3
    /\ nextItemPk = 3
    /\ last = Response("item_create", 2, 2, "created")
    /\ reqs = <<>>

NextShare ==
    \/ \E actor \in ShareActors, pk \in SharePks, data \in ProgramData,
          partial \in BOOLEAN : ProgramUpdate(actor, pk, data, partial)
    \/ \E pk \in SharePks : ProgramDelete("alice", pk)
    \/ \E actor \in ShareActors, pk \in SharePks, candidate \in Tokens,
          now \in Nows : ProgramShare(actor, pk, candidate, now)
    \/ /\ nextItemPk <= 2 + MaxNewItems
       /\ \E pk \in SharePks : ItemCreate("alice", pk, NewItemData)
    \/ \E pk \in SharePks, item_pk \in 1..(2 + MaxNewItems) :
          ItemUpdate("alice", pk, item_pk, EndOnlyData, TRUE)
    \/ \E pk \in SharePks, item_pk \in 1..(2 + MaxNewItems) :
          ItemDelete("alice", pk, item_pk)

SpecShare == InitShare /\ [][NextShare]_vars

\* the readiness the spec defines: items exist, each has end > start, and no
\* two distinct ones overlap
ReadyByDefinition(pk) ==
    /\ ItemsOf(items, pk) # {}
    /\ \A i \in ItemsOf(items, pk) : i.end_time > i.start_time
    /\ \A a \in ItemsOf(items, pk), b \in ItemsOf(items, pk) :
          a.pk # b.pk => ~Overlap(a.start_time, a.end_time, b.start_time, b.end_time)

\* C6: share() on an Unshared program succeeds iff the program is ready at that
\* moment: unready, it fails with the not-ready error and token and shared_at
\* stay empty; ready, it sets a token and shared_at.
C6_ShareGate ==
    [][\A actor \in ShareActors, pk \in SharePks, candidate \in Tokens, now \in Nows :
          (/\ last'.op = "share" /\ last'.program = pk
           /\ \E p \in programs : p.pk = pk /\ p.share_token = None
           /\ ProgramShare(actor, pk, candidate, now))
          => IF ReadyByDefinition(pk)
             THEN /\ last'.result = "shared"
                  /\ \E q \in programs' :
                        /\ q.pk = pk
                        /\ q.share_token \in Tokens /\ q.shared_at \in Nows
                        /\ last'.token = q.share_token
             ELSE /\ last'.result = "not_ready"
                  /\ programs' = programs
      ]_vars

\* a program whose only item was added after the initial ones has been shared
C6_Witness ==
    /\ last.op = "share" /\ last.result = "shared"
    /\ ItemsOf(items, last.program) # {}
    /\ \A i \in ItemsOf(items, last.program) : i.pk > 2

\* C7: share() on a Shared program returns the existing token with the
\* "already shared" indication, leaves share_token and shared_at as they are,
\* and does not look at readiness.
C7_ShareIdempotent ==
    [][\A actor \in ShareActors, pk \in SharePks, candidate \in Tokens, now \in Nows :
          \A p \in programs :
              (/\ last'.op = "share" /\ last'.program = pk
               /\ p.pk = pk /\ p.share_token # None
               /\ ProgramShare(actor, pk, candidate, now))
              => /\ last'.result = "already_shared"
                 /\ last'.token = p.share_token
                 /\ last'.shared_at = p.shared_at
                 /\ programs' = programs
                 /\ items' = items
      ]_vars

\* share() answered "already shared" for a program that is not ready
C7_Witness ==
    /\ last.op = "share" /\ last.result = "already_shared"
    /\ last.token \in Tokens
    /\ ~ReadyByDefinition(last.program)

\* C8: once set, share_token and shared_at of a program keep their values in
\* every later state in which the program exists.
C8_TokenStable ==
    [][\A p \in programs : p.share_token # None =>
          \A q \in programs' : q.pk = p.pk =>
              (q.share_token = p.share_token /\ q.shared_at = p.shared_at)
      ]_vars

\* an item edit has left a shared program unready: shared_but_unready is true
C8_Witness ==
    /\ last.op \in {"item_patch", "item_delete"}
    /\ \E p \in programs :
          /\ p.pk = last.program
          /\ p.share_token \in Tokens /\ p.shared_at \in Nows
          /\ shared_but_unready(items, p)
          /\ ~ReadyByDefinition(p.pk)

\* C20: a program holds a share_token iff it holds a shared_at: the two are
\* written together, by a successful share() of an Unshared program and by
\* nothing else; so shared_but_unready is true exactly for the programs that
\* hold a token and are not ready.
C20_TokenIffSharedAt ==
    /\ [](\A p \in programs :
             /\ (p.share_token # None) <=> (p.shared_at # None)
             /\ shared_but_unready(items, p)
                   <=> (p.share_token # None /\ ~ReadyByDefinition(p.pk)))
    /\ [][\A p \in programs, q \in programs' :
             (/\ q.pk = p.pk
              /\ (q.share_token # p.share_token \/ q.shared_at # p.shared_at))
             => /\ last'.op = "share" /\ last'.result = "shared" /\ last'.program = p.pk
                /\ p.share_token = None /\ p.shared_at = None
                /\ q.share_token \in Tokens /\ q.shared_at \in Nows
         ]_vars

\* one program has just been shared while the other, shared before, has been
\* edited into an unready state
C20_Witness ==
    /\ last.op = "share" /\ last.result = "shared"
    /\ \E p \in programs, q \in programs :
          /\ p.pk = last.program /\ q.pk # p.pk
          /\ p.share_token \in Tokens /\ p.shared_at \in Nows
          /\ q.share_token \in Tokens /\ q.shared_at \in Nows
          /\ shared_but_unready(items, q) /\ ~shared_but_unready(items, p)

----------------------------------------------------------------------------
(* SpecRace: share requests served by concurrent workers.  Each ORM call   *)
(* of ProgramShareView.post is one database statement and one step; the    *)
(* Program instance a request has loaded is its own copy of the row.       *)

ReqIds == 1..MaxRequests

NoRow == [pk |-> 0, owner |-> None, title |-> None, share_token |-> None,
          shared_at |-> None]

Idle == [pc |-> "idle", row |-> NoRow, result |-> "none"]

\* the request ends with this result
Finish(r, result) ==
    reqs' = [reqs EXCEPT ![r].pc = "done", ![r].result = result]

\* views.py:99-105: get_object_or_404 and check_object_permissions
ShareLoad(r, actor, pk) ==
    /\ reqs[r].pc = "idle"
    /\ IF ~IsAuthenticated(actor) THEN Finish(r, "denied")
       ELSE IF ~ProgramFound(pk, actor) THEN Finish(r, "not_found")
       ELSE IF ~has_object_permission(actor, ProgramRow(pk)) THEN Finish(r, "denied")
       ELSE reqs' = [reqs EXCEPT ![r].pc = "check", ![r].row = ProgramRow(pk)]
    /\ UNCHANGED <<programs, items, nextProgramPk, nextItemPk, last>>

\* views.py:107-119: the already-shared test on the loaded instance, then
\* is_ready, which queries the item table
ShareCheck(r) ==
    /\ reqs[r].pc = "check"
    /\ IF already_shared(reqs[r].row) THEN Finish(r, "already_shared")
       ELSE IF ~is_ready(items, reqs[r].row.pk) THEN Finish(r, "not_ready")
       ELSE reqs' = [reqs EXCEPT ![r].pc = "generate"]
    /\ UNCHANGED <<programs, items, nextProgramPk, nextItemPk, last>>

\* models.py:100-104: one pass of the loop of generate_share_token
ShareGenerate(r, candidate) ==
    /\ reqs[r].pc = "generate"
    /\ IF generate_accepts(candidate)
       THEN reqs' = [reqs EXCEPT ![r].pc = "save", ![r].row.share_token = candidate]
       ELSE reqs' = reqs
    /\ UNCHANGED <<programs, items, nextProgramPk, nextItemPk, last>>

\* views.py:123-130: shared_at = timezone.now(); program.save() writes every
\* column of the loaded instance to the row, under the unique constraint
ShareSave(r, now) ==
    /\ reqs[r].pc = "save"
    /\ \E p \in programs : p.pk = reqs[r].row.pk
    /\ LET row == [reqs[r].row EXCEPT !.shared_at = now]
       IN IF ShareTokenUnique(row.pk, row.share_token)
          THEN /\ programs' = (programs \ {ProgramRow(row.pk)}) \cup {row}
               /\ reqs' = [reqs EXCEPT ![r].pc = "done", ![r].row = row,
                                       ![r].result = "shared"]
          ELSE /\ programs' = programs
               /\ reqs' = [reqs EXCEPT ![r].pc = "done", ![r].row = row,
                                       ![r].result = "integrity_error"]
    /\ UNCHANGED <<items, nextProgramPk, nextItemPk, last>>

\* alice's two programs; the first has an item, the second may have one
InitRace ==
    /\ programs = {[pk |-> pk, owner |-> "alice", title |-> "a",
                    share_token |-> None, shared_at |-> None] : pk \in SharePks}
    /\ \E n \in SharePks :
          items = {[pk |-> pk, program |-> pk, title |-> "a", start_time |-> 0,
                    end_time |-> 1, position |-> 1] : pk \in 1..n}
    /\ nextProgramPk = 3
    /\ nextItemPk = Cardinality(items) + 1
    /\ last = NoResponse
    /\ reqs = [r \in ReqIds |-> Idle]

NextRace ==
    \/ \E r \in ReqIds, pk \in SharePks : ShareLoad(r, "alice", pk)
    \/ \E r \in ReqIds : ShareCheck(r)
    \/ \E r \in ReqIds, candidate \in Tokens : ShareGenerate(r, candidate)
    \/ \E r \in ReqIds, now \in Nows : ShareSave(r, now)

SpecRace == InitRace /\ [][NextRace]_vars

\* C9: no two programs hold the same token, and token generation keeps a
\* candidate only when no program holds it.
C9_TokensUnique ==
    /\ [](\A p \in programs, q \in programs :
             (p.pk # q.pk /\ p.share_token # None) => p.share_token # q.share_token)
    /\ [][\A r \in ReqIds :
             (reqs[r].pc = "generate" /\ reqs'[r].pc = "save")
                => ~\E p \in programs : p.share_token = reqs'[r].row.share_token
         ]_vars

\* two programs are shared, and a request that drew a held token has ended
C9_Witness ==
    /\ \E p \in programs, q \in programs :
          p.pk # q.pk /\ p.share_token \in Tokens /\ q.share_token \in Tokens
    /\ \A r \in ReqIds : reqs[r].pc = "done" /\ reqs[r].result = "shared"

\* C10: of two concurrent first-time share() requests on one program at most
\* one succeeds, and the stored token is the one the successful request returned.
C10_OneWinner ==
    /\ \A r1 \in ReqIds, r2 \in ReqIds :
          (r1 # r2 /\ reqs[r1].row.pk = reqs[r2].row.pk)
              => ~(reqs[r1].result = "shared" /\ reqs[r2].result = "shared")
    /\ \A r \in ReqIds : reqs[r].result = "shared" =>
          \E p \in programs : p.pk = reqs[r].row.pk
                              /\ p.share_token = reqs[r].row.share_token

----------------------------------------------------------------------------
(* SpecGenerate: the share requests of SpecRace on workers that take a new *)
(* request once they have answered, under fair scheduling: a running       *)
(* request is never suspended forever, and secrets.token_urlsafe does not  *)
(* avoid a free token forever.                                             *)

\* views.py:110-130: the response is returned and the worker is free again
ShareReturn(r) ==
    /\ reqs[r].pc = "done"
    /\ reqs' = [reqs EXCEPT ![r] = Idle]
    /\ UNCHANGED <<programs, items, nextProgramPk, nextItemPk, last>>

NextGenerate ==
    \/ \E r \in ReqIds, pk \in SharePks : ShareLoad(r, "alice", pk)
    \/ \E r \in ReqIds : ShareCheck(r)
    \/ \E r \in ReqIds, candidate \in Tokens : ShareGenerate(r, candidate)
    \/ \E r \in ReqIds, now \in Nows : ShareSave(r, now)
    \/ \E r \in ReqIds : ShareReturn(r)

SpecGenerate ==
    /\ InitRace
    /\ [][NextGenerate]_vars
    /\ \A r \in ReqIds :
          /\ WF_vars(ShareCheck(r))
          /\ WF_vars(\E candidate \in Tokens : ShareGenerate(r, candidate))
          /\ WF_vars(\E now \in Nows : ShareSave(r, now))

\* C16: token generation always terminates: a request that has entered the
\* loop of generate_share_token leaves it, with a free token or with the
\* token-space-exhausted error, also when every candidate is held.
C16_GenerateTerminates ==
    \A r \in ReqIds : (reqs[r].pc = "generate") ~> (reqs[r].pc # "generate")

----------------------------------------------------------------------------
(* SpecPosition: items created without a position, moved and deleted, one  *)
(* request at a time                                                       *)

PositionInstants == 0..MaxPosItems

\* bodies that name a whole valid range and no position
PositionData ==
    {d \in [title : {Some("a")}, start_time : {Some(t) : t \in PositionInstants},
            end_time : {Some(t) : t \in PositionInstants}, position : {Nothing}] :
        Val(d.end_time) > Val(d.start_time)}

\* the database after alice has created program 2 with one item, then program 1
InitPosition ==
    /\ programs = {[pk |-> pk, owner |-> "alice", title |-> "a",
                    share_token |-> None, shared_at |-> None] : pk \in SharePks}
    /\ items = {[pk |-> 1, program |-> 2, title |-> "a", start_time |-> 0,
                 end_time |-> 1, position |-> 1]}
    /\ nextProgramPk = 3
    /\ nextItemPk = 2
    /\ last = Response("program_create", 1, 0, "created")
    /\ reqs = <<>>

NextPosition ==
    \/ /\ nextItemPk <= 1 + MaxPosItems
       /\ \E data \in PositionData : ItemCreate("alice", 1, data)
    \/ \E item_pk \in 2..(1 + MaxPosItems), data \in PositionData :
          ItemUpdate("alice", 1, item_pk, data, FALSE)
    \/ \E pk \in SharePks, item_pk \in 1..(1 + MaxPosItems) :
          ItemDelete("alice", pk, item_pk)

SpecPosition == InitPosition /\ [][NextPosition]_vars

\* C11: an item created without a position is stored with the largest position
\* among the items now in its program plus one, or 1 when the program has no
\* item; so as long as nothing was deleted the items of a program carry
\* 1, 2, 3, ... in creation order, and after a deletion the gap is not filled.
C11_AutoPosition ==
    LET mine == ItemsOf(items, 1)
    IN /\ \A data \in PositionData :
             LET out == ItemCreateResult("alice", 1, data)
             IN ~OverlapsSome(data, mine) =>
                   /\ out.last.result = "created"
                   /\ \E row \in out.items :
                         /\ out.items = items \cup {row}
                         /\ row.pk = nextItemPk /\ row.program = 1
                         /\ IF mine = {} THEN row.position = 1
                            ELSE \E m \in mine :
                                    /\ \A j \in mine : j.position <= m.position
                                    /\ row.position = m.position + 1
       /\ ({i.pk : i \in mine} = 2..(nextItemPk - 1)) =>
             \A i \in mine : i.position = Cardinality({j \in mine : j.pk <= i.pk})

\* after a deletion the new item took the largest position plus one, past a gap
C11_Witness ==
    /\ last.op = "item_create" /\ last.result = "created" /\ last.program = 1
    /\ \E i \in items : /\ i.pk = last.item
                        /\ i.position = 3
                        /\ Cardinality(ItemsOf(items, 1)) = 2

\* the siblings in S whose range overlaps the candidate range of data
Conflicting(data, S) ==
    {i \in S : Overlap(Val(data.start_time), Val(data.end_time),
                       i.start_time, i.end_time)}

\* the conflict error of the outcome names the conflicting sibling that starts first
NamesFirstByStart(out, data, others) ==
    (out.last.result = "conflict") =>
        \E c \in Conflicting(data, others) :
            /\ out.last.detail = c.pk
            /\ \A d \in Conflicting(data, others) : c.start_time <= d.start_time

\* C15: when the range of a create or update conflicts with several siblings,
\* the conflict error names the conflicting sibling with the smallest start
\* time, whatever the siblings' positions.
C15_FirstByStart ==
    \A data \in PositionData :
        /\ NamesFirstByStart(ItemCreateResult("alice", 1, data), data, ItemsOf(items, 1))
        /\ \A i \in ItemsOf(items, 1) :
              NamesFirstByStart(ItemUpdateResult("alice", 1, i.pk, data, FALSE), data,
                                ItemsOf(items, 1) \ {i})

\* C17: deleting an item removes that row and nothing else: every other item,
\* of this and of every other program, keeps its position, start, end and
\* title, so positions are not renumbered or compacted.
C17_DeleteFrame ==
    [][(last'.op = "item_delete" /\ last'.result = "deleted") =>
          /\ \A i \in items : i.pk # last'.item => i \in items'
          /\ items' \subseteq items
          /\ \E i \in items : i.pk = last'.item /\ i.program = last'.program
                              /\ i \notin items'
      ]_vars

\* the item at position 1 of program 1 was deleted; the one at position 2 stays there
C17_Witness ==
    /\ last.op = "item_delete" /\ last.result = "deleted" /\ last.program = 1
    /\ \E i \in ItemsOf(items, 1) : i.position = 2
    /\ ~\E i \in ItemsOf(items, 1) : i.position = 1
    /\ ItemsOf(items, 2) # {}

----------------------------------------------------------------------------
(* SpecItemRace: item creations served by concurrent workers.  Each query  *)
(* of ProgramItemView.post is one database statement and one step; in      *)
(* between, other requests run.                                            *)

\* explicit positions a request may name
RacePositions == {1, 2}

\* bodies of the racing creations: [0,2) overlaps both [0,1) and [1,2)
RaceData ==
    {d \in [title : {Some("a")}, start_time : {Some(0), Some(1)},
            end_time : {Some(1), Some(2)}, position : Opt(RacePositions)] :
        Val(d.end_time) > Val(d.start_time)}

NoData == [title |-> Nothing, start_time |-> Nothing, end_time |-> Nothing,
           position |-> Nothing]

\* a worker with no request: program is the program of the request, data its
\* body, position the position the row will be inserted with, item the new row
ItemIdle == [pc |-> "idle", program |-> 0, data |-> NoData, position |-> 0,
             item |-> 0, result |-> "none"]

\* views.py:155-156: get_program and the construction of the serializer
CreateLoad(r, actor, program_pk, data) ==
    /\ reqs[r].pc = "idle"
    /\ IF ~IsAuthenticated(actor) THEN Finish(r, "denied")
       ELSE IF ~ProgramFound(program_pk, actor) THEN Finish(r, "not_found")
       ELSE reqs' = [reqs EXCEPT ![r].pc = "validate", ![r].program = program_pk,
                                 ![r].data = data]
    /\ UNCHANGED <<programs, items, nextProgramPk, nextItemPk, last>>

\* views.py:157: serializer.is_valid(), whose validate() queries the siblings
CreateValidate(r) ==
    /\ reqs[r].pc = "validate"
    /\ IF RequiredMissing(reqs[r].data, FALSE) THEN Finish(r, "required")
       ELSE LET v == validate(items, reqs[r].data, reqs[r].program, 0)
            IN IF v.error # "" THEN Finish(r, v.error)
               ELSE IF IsSome(reqs[r].data.position)
               THEN reqs' = [reqs EXCEPT ![r].pc = "insert",
                                         ![r].position = Val(reqs[r].data.position)]
               ELSE reqs' = [reqs EXCEPT ![r].pc = "position"]
    /\ UNCHANGED <<programs, items, nextProgramPk, nextItemPk, last>>

\* models.py:149-156: the Max('position') query of ProgramItem.save
CreatePosition(r) ==
    /\ reqs[r].pc = "position"
    /\ reqs' = [reqs EXCEPT ![r].pc = "insert",
                            ![r].position = AssignPosition(reqs[r].program)]
    /\ UNCHANGED <<programs, items, nextProgramPk, nextItemPk, last>>

\* models.py:158: super().save(), the INSERT under the unique_together constraint
CreateInsert(r) ==
    /\ reqs[r].pc = "insert"
    /\ IF PositionUnique(0, reqs[r].program, reqs[r].position)
       THEN /\ items' = items \cup {[pk |-> nextItemPk, program |-> reqs[r].program,
                                     title |-> Val(reqs[r].data.title),
                                     start_time |-> Val(reqs[r].data.start_time),
                                     end_time |-> Val(reqs[r].data.end_time),
                                     position |-> reqs[r].position]}
            /\ nextItemPk' = nextItemPk + 1
            /\ reqs' = [reqs EXCEPT ![r].pc = "done", ![r].item = nextItemPk,
                                    ![r].result = "created"]
       ELSE /\ UNCHANGED <<items, nextItemPk>>
            /\ reqs' = [reqs EXCEPT ![r].pc = "done", ![r].result = "integrity_error"]
    /\ UNCHANGED <<programs, nextProgramPk, last>>

\* a PUT that sends an item back as it is stored, with another position
RepositionData(row, position) ==
    [title |-> Some(row.title), start_time |-> Some(row.start_time),
     end_time |-> Some(row.end_time), position |-> Some(position)]

\* the database after alice has created program 2 with one item, then program 1
InitItemRace ==
    /\ programs = {[pk |-> pk, owner |-> "alice", title |-> "a",
                    share_token |-> None, shared_at |-> None] : pk \in SharePks}
    /\ items = {[pk |-> 1, program |-> 2, title |-> "a", start_time |-> 0,
                 end_time |-> 1, position |-> 1]}
    /\ nextProgramPk = 3
    /\ nextItemPk = 2
    /\ last = Response("program_create", 1, 0, "created")
    /\ reqs = [r \in ReqIds |-> ItemIdle]

NextItemRace ==
    \/ \E r \in ReqIds, data \in RaceData : CreateLoad(r, "alice", 1, data)
    \/ \E r \in ReqIds : CreateValidate(r)
    \/ \E r \in ReqIds : CreatePosition(r)
    \/ \E r \in ReqIds : CreateInsert(r)
    \/ \E i \in ItemsOf(items, 1), position \in RacePositions :
          ItemUpdate("alice", 1, i.pk, RepositionData(i, position), FALSE)

SpecItemRace == InitItemRace /\ [][NextItemRace]_vars

\* C12: no two items of one program ever have the same position, also when
\* creations interleave: an insert or an update with a position that another
\* item of the program holds fails with the duplicate-position error and
\* changes nothing, so of two creations bound for the same position the second
\* to insert fails; items of different programs may share a position.
C12_PositionUnique ==
    /\ [](/\ \A a \in items, b \in items :
                (a.pk # b.pk /\ a.program = b.program) => a.position # b.position
          /\ \A i \in ItemsOf(items, 1), position \in RacePositions :
                (/\ \E j \in ItemsOf(items, 1) : j.pk # i.pk /\ j.position = position
                 /\ ~OverlapsSome(RepositionData(i, position), ItemsOf(items, 1) \ {i}))
                => LET out == ItemUpdateResult("alice", 1, i.pk,
                                               RepositionData(i, position), FALSE)
                   IN out.last.result = "integrity_error" /\ out.items = items)
    /\ [][\A r \in ReqIds :
             (reqs[r].pc = "insert" /\ reqs'[r].pc = "done") =>
                IF \E j \in ItemsOf(items, reqs[r].program) :
                      j.position = reqs[r].position
                THEN reqs'[r].result = "integrity_error" /\ items' = items
                ELSE reqs'[r].result = "created"
         ]_vars

\* two creations without a position both read the same maximum: one was
\* stored, the other failed; its position is also held in the other program
C12_Witness ==
    \E r1 \in ReqIds, r2 \in ReqIds :
        /\ reqs[r1].result = "created" /\ reqs[r2].result = "integrity_error"
        /\ reqs[r1].data.position = Nothing /\ reqs[r2].data.position = Nothing
        /\ reqs[r1].position = reqs[r2].position
        /\ \E a \in ItemsOf(items, 1), b \in ItemsOf(items, 2) : a.position = b.position

\* C18: when two creations for one program run concurrently with ranges that
\* overlap each other, at most one of them is stored: the rows of two
\* successful creations never overlap.
C18_RaceNoOverlap ==
    \A r1 \in ReqIds, r2 \in ReqIds :
        (/\ r1 # r2
         /\ reqs[r1].result = "created" /\ reqs[r2].result = "created"
         /\ reqs[r1].program = reqs[r2].program)
        => ~Overlap(ItemRow(reqs[r1].item).start_time, ItemRow(reqs[r1].item).end_time,
                    ItemRow(reqs[r2].item).start_time, ItemRow(reqs[r2].item).end_time)

----------------------------------------------------------------------------
(* SpecAccess: every handler, called by the owner, another account, an     *)
(* administrator and an anonymous client, one request at a time            *)

\* the programs a request may address: alice's, bob's, and one that does not exist
AccessPks == {1, 2, 3}
AccessItemPks == {1, 2, 3}

\* the tokens a public lookup may carry: the generated ones and one never generated
LookupTokens == Tokens \cup {"tokX"}

\* the bodies of a PATCH that names a title
TitleData == [title |-> Some("a"), start_time |-> Nothing, end_time |-> Nothing,
              position |-> Nothing]
ProgramTitleData == [title |-> Some("a"), share_token |-> None, shared_at |-> None]

\* the database after alice and bob have each created a program with one item
InitAccess ==
    /\ programs = {[pk |-> 1, owner |-> "alice", title |-> "a",
                    share_token |-> None, shared_at |-> None],
                   [pk |-> 2, owner |-> "bob", title |-> "a",
                    share_token |-> None, shared_at |-> None]}
    /\ items = {[pk |-> pk, program |-> pk, title |-> "a", start_time |-> 0,
                 end_time |-> 1, position |-> 1] : pk \in {1, 2}}
    /\ nextProgramPk = 3
    /\ nextItemPk = 3
    /\ last = Response("item_create", 2, 2, "created")
    /\ reqs = <<>>

NextAccess ==
    \/ ProgramCreate(Anonymous, "a")
    \/ \E actor \in Actors : ProgramList(actor)
    \/ \E actor \in Actors : Dashboard(actor)
    \/ \E actor \in Actors, pk \in AccessPks : ProgramGet(actor, pk)
    \/ \E actor \in Actors, pk \in AccessPks :
          ProgramUpdate(actor, pk, ProgramTitleData, TRUE)
    \/ \E actor \in Actors, pk \in AccessPks : ProgramDelete(actor, pk)
    \/ \E actor \in Actors, pk \in AccessPks, candidate \in Tokens :
          ProgramShare(actor, pk, candidate, "now1")
    \/ \E actor \in Actors, pk \in AccessPks : ItemList(actor, pk)
    \/ \E actor \in Actors, pk \in AccessPks :
          /\ (nextItemPk \in AccessItemPks \/ ~ProgramFound(pk, actor))
          /\ ItemCreate(actor, pk, NewItemData)
    \/ \E actor \in Actors, pk \in AccessPks, item_pk \in AccessItemPks :
          ItemGet(actor, pk, item_pk)
    \/ \E actor \in Actors, pk \in AccessPks, item_pk \in AccessItemPks :
          ItemUpdate(actor, pk, item_pk, TitleData, TRUE)
    \/ \E actor \in Actors, pk \in AccessPks, item_pk \in AccessItemPks :
          ItemDelete(actor, pk, item_pk)
    \/ \E actor \in Actors, share_token \in LookupTokens : SharedGet(actor, share_token)
    \/ \E actor \in Actors, share_token \in LookupTokens : SharedWrite(actor, share_token)

SpecAccess == InitAccess /\ [][NextAccess]_vars

\* the actor is an administrator or the owner of the program pk
Allowed(actor, pk) ==
    \E p \in programs : p.pk = pk /\ (actor \in Staff \/ p.owner = actor)

\* the step writes no table
StoreUnchanged ==
    /\ programs' = programs /\ items' = items
    /\ nextProgramPk' = nextProgramPk /\ nextItemPk' = nextItemPk

\* a request is carried out when allowed, and otherwise answered with the
\* not-found response, which depends on nothing but the request
AccessRule(op, pk, item_pk, allowed) ==
    IF allowed THEN last'.result \notin {"not_found", "denied"}
    ELSE last' = Response(op, pk, item_pk, "not_found") /\ StoreUnchanged

\* C13: for an authenticated actor every operation on a program addressed by
\* its identifier and on its items is carried out iff the actor is an
\* administrator or the owner; otherwise the answer is not-found, as for a
\* program that does not exist, and nothing is written.  An item is reached
\* only through the program it belongs to.
C13_OwnerOrAdmin ==
    [][\A actor \in Users \cup Staff, pk \in AccessPks :
          /\ last'.program = pk =>
              /\ (last'.op = "program_get" /\ ProgramGet(actor, pk))
                    => AccessRule("program_get", pk, 0, Allowed(actor, pk))
              /\ (last'.op = "program_update"
                    /\ ProgramUpdate(actor, pk, ProgramTitleData, TRUE))
                    => AccessRule("program_update", pk, 0, Allowed(actor, pk))
              /\ (last'.op = "program_delete" /\ ProgramDelete(actor, pk))
                    => AccessRule("program_delete", pk, 0, Allowed(actor, pk))
              /\ (last'.op = "share"
                    /\ \E candidate \in Tokens : ProgramShare(actor, pk, candidate, "now1"))
                    => AccessRule("share", pk, 0, Allowed(actor, pk))
              /\ (last'.op = "item_list" /\ ItemList(actor, pk))
                    => AccessRule("item_list", pk, 0, Allowed(actor, pk))
              /\ (last'.op = "item_create" /\ ItemCreate(actor, pk, NewItemData))
                    => AccessRule("item_create", pk, 0, Allowed(actor, pk))
              /\ \A item_pk \in AccessItemPks :
                    LET mine == \E i \in items : i.pk = item_pk /\ i.program = pk
                    IN /\ (last'.op = "item_get" /\ ItemGet(actor, pk, item_pk))
                             => AccessRule("item_get", pk, item_pk,
                                           Allowed(actor, pk) /\ mine)
                       /\ (last'.op = "item_patch"
                             /\ ItemUpdate(actor, pk, item_pk, TitleData, TRUE))
                             => AccessRule("item_patch", pk, item_pk,
                                           Allowed(actor, pk) /\ mine)
                       /\ (last'.op = "item_delete" /\ ItemDelete(actor, pk, item_pk))
                             => AccessRule("item_delete", pk, item_pk,
                                           Allowed(actor, pk) /\ mine)
      ]_vars

\* an item of bob's program was asked for under alice's program, which exists:
\* the answer is not-found
C13_Witness ==
    /\ last = Response("item_get", 1, 2, "not_found")
    /\ \E p \in programs : p.pk = 1 /\ p.owner = "alice"
    /\ \E i \in items : i.pk = 2 /\ i.program = 2

\* the request is denied and nothing is written
Denied == last'.result = "denied" /\ StoreUnchanged

\* C14: an unauthenticated actor changes nothing and reads a program only by
\* its token: every request by identifier and every write is denied, and a
\* token lookup answers with the program whose share_token is the token,
\* never an Unshared one, or not-found when no program holds the token.
C14_AnonymousReadOnly ==
    [][/\ (last'.op = "program_create" /\ ProgramCreate(Anonymous, "a")) => Denied
       /\ (last'.op = "program_list" /\ ProgramList(Anonymous)) => Denied
       /\ (last'.op = "dashboard" /\ Dashboard(Anonymous)) => Denied
       /\ \A pk \in AccessPks :
             last'.program = pk =>
                /\ (last'.op = "program_get" /\ ProgramGet(Anonymous, pk)) => Denied
                /\ (last'.op = "program_update"
                      /\ ProgramUpdate(Anonymous, pk, ProgramTitleData, TRUE)) => Denied
                /\ (last'.op = "program_delete" /\ ProgramDelete(Anonymous, pk)) => Denied
                /\ (last'.op = "share"
                      /\ \E candidate \in Tokens :
                            ProgramShare(Anonymous, pk, candidate, "now1")) => Denied
                /\ (last'.op = "item_list" /\ ItemList(Anonymous, pk)) => Denied
                /\ (last'.op = "item_create" /\ ItemCreate(Anonymous, pk, NewItemData))
                      => Denied
                /\ \A item_pk \in AccessItemPks :
                      /\ (last'.op = "item_get" /\ ItemGet(Anonymous, pk, item_pk))
                            => Denied
                      /\ (last'.op = "item_patch"
                            /\ ItemUpdate(Anonymous, pk, item_pk, TitleData, TRUE))
                            => Denied
                      /\ (last'.op = "item_delete" /\ ItemDelete(Anonymous, pk, item_pk))
                            => Denied
       /\ \A share_token \in LookupTokens :
             /\ (last'.op = "shared_write" /\ SharedWrite(Anonymous, share_token))
                   => Denied
             /\ (last'.op = "shared_get" /\ SharedGet(Anonymous, share_token)) =>
                   /\ StoreUnchanged
                   /\ IF \E p \in programs : p.share_token = share_token
                      THEN /\ last'.result = "ok"
                           /\ \E p \in programs :
                                 /\ p.pk = last'.program
                                 /\ p.share_token = share_token
                                 /\ p.share_token # None
                                 /\ last'.shared_at = p.shared_at
                                 /\ last'.rows = {i.pk : i \in ItemsOf(items, p.pk)}
                      ELSE last' = Response("shared_get", 0, 0, "not_found")
      ]_vars

\* a token lookup has returned bob's shared program while alice's is Unshared
C14_Witness ==
    /\ last.op = "shared_get" /\ last.result = "ok" /\ last.program = 2
    /\ last.rows # {}
    /\ \E p \in programs : p.pk = 2 /\ p.share_token \in Tokens
    /\ \E p \in programs : p.pk = 1 /\ p.share_token = None

====
